---------------------------- MODULE Spec2Model ----------------------------
(***************************************************************************)
(* Model of src/gemini-fallback.py: the GeminiModelFallback controller      *)
(* (retry / next model / new cycle / hand-off) and the main() entry point.  *)
(*                                                                          *)
(* Texts (error output, operator input) are sequences of one-character      *)
(* strings, so that lower-casing, formatting and substring search are       *)
(* computed the way the Python code computes them.                          *)
(*                                                                          *)
(* Line 132 of the source, "{last_error[:150]...}", is not a valid f-string *)
(* field; the model reads it as the evident last_error[:150].  The          *)
(* "hours until reset" line of the hand-off message depends only on the     *)
(* wall clock and is left out of the message record.                        *)
(***************************************************************************)
EXTENDS Integers, Sequences, FiniteSets, TLC

(* ------------------------------ bounds --------------------------------- *)
\* largest ranking length, retry limit and cycle limit the model explores
MaxModels == 2
MaxRetries == 2
MaxCycles == 2
\* operator restarts per execute call, and execute calls per controller
MaxRestarts == 1
MaxCalls == 2

(* ------------------------------- texts --------------------------------- *)
UpperCase ==
  <<"A", "B", "C", "D", "E", "F", "G", "H", "I", "J", "K", "L", "M",
    "N", "O", "P", "Q", "R", "S", "T", "U", "V", "W", "X", "Y", "Z">>
LowerCase ==
  <<"a", "b", "c", "d", "e", "f", "g", "h", "i", "j", "k", "l", "m",
    "n", "o", "p", "q", "r", "s", "t", "u", "v", "w", "x", "y", "z">>
Digits ==
  <<"0", "1", "2", "3", "4", "5", "6", "7", "8", "9">>

\* str.lower() on one character
LowerChar(c) ==
  IF \E i \in 1..26 : UpperCase[i] = c
    THEN LowerCase[CHOOSE i \in 1..26 : UpperCase[i] = c]
    ELSE c

\* str.lower()
lower(text) ==
  [i \in 1..Len(text) |-> LowerChar(text[i])]

\* the Python operator "pat in text"
Contains(text, pat) ==
  \E i \in 0..(Len(text) - Len(pat)) : SubSeq(text, i + 1, i + Len(pat)) = pat

\* str(n) for a non-negative integer, as the f-string formats the timeout
RECURSIVE str(_)
str(n) ==
  IF n < 10 THEN <<Digits[n + 1]>>
  ELSE str(n \div 10) \o <<Digits[(n % 10) + 1]>>

\* the list quota_indicators of _check_quota_error
quota_indicators ==
  << <<"q", "u", "o", "t", "a">>,
     <<"Q", "u", "o", "t", "a", " ", "e", "x", "c", "e", "e", "d", "e", "d">>,
     <<"l", "i", "m", "i", "t">>,
     <<"4", "2", "9">>,
     <<"r", "a", "t", "e", " ", "l", "i", "m", "i", "t">> >>

CheckQuotaCaseSensitive(error_output) ==
  \E k \in 1..Len(quota_indicators) :
     Contains(error_output, quota_indicators[k])

_check_quota_error(error_output) ==
  LET lowered == lower(error_output)
  IN  \E k \in 1..Len(quota_indicators) :
        Contains(lowered, quota_indicators[k])

\* f"Timeout after {timeout}s"
TimeoutText(timeout) ==
  <<"T", "i", "m", "e", "o", "u", "t", " ", "a", "f", "t", "e", "r", " ">>
    \o str(timeout) \o <<"s">>

\* length to which the hand-off message cuts the last error
ERROR_PREVIEW_LEN == 150

(* error texts a backend process (or a failure to start it) can produce *)
TxtRate ==
  <<"E", "r", "r", "o", "r", " ", "4", "2", "9", ":", " ", "r", "a", "t", "e",
    " ", "l", "i", "m", "i", "t", " ", "e", "x", "c", "e", "e", "d", "e", "d">>
TxtPerm ==
  <<"p", "e", "r", "m", "i", "s", "s", "i", "o", "n", " ", "d", "e", "n", "i",
    "e", "d">>
TxtNotFound ==
  <<"g", "e", "m", "i", "n", "i", ":", " ", "n", "o", "t", " ", "f", "o", "u",
    "n", "d">>
TxtEmpty == << >>
TxtAnswer == <<"o", "k">>

ErrorTexts == {TxtRate, TxtPerm}
ExceptionTexts == {TxtNotFound}

(* lines the operator can type at the hand-off prompt *)
InRetry == <<"r", "e", "t", "r", "y">>
InRetryCap == <<"R", "e", "t", "r", "y">>
InRetrySpace == <<"r", "e", "t", "r", "y", " ">>
InNo == <<"n", "o">>
InputLines == {InRetry, InRetryCap, InRetrySpace, InNo, << >>}

(* values of the timeout argument of execute; 60 is the default *)
Timeouts == {60, 429}

(* ------------------------------- state --------------------------------- *)
VARIABLES
  MODEL_PRIORITIES,        \* the ranking (class attribute, never assigned)
  MAX_RETRIES_PER_MODEL,   \* class attribute
  TOTAL_CYCLE_LIMIT,       \* class attribute
  self,                    \* the controller object's fields
  pc,                      \* "idle" | "attempting" | "input" | "returned" | "exited" | "crashed"
  timeout,                 \* argument of the running execute call
  result,                  \* execute's local: the last _execute_with_model dict
  error_msg,               \* execute's local: the last hand-off message
  ret,                     \* value returned by execute
  exit_code,               \* process exit status (-1 while running)
  trace,                   \* history: the invocations of the current call
  outcome,                 \* history: what the last invoked command did
  pre,                     \* history: self just before the last invocation
  calls,                   \* history: number of execute calls so far
  restarts,                \* history: operator restarts in the current call
  text,                    \* argument of a direct _check_quota_error call
  verdicts                 \* what the direct calls on text returned, in order

vars ==
  <<MODEL_PRIORITIES, MAX_RETRIES_PER_MODEL, TOTAL_CYCLE_LIMIT, self, pc,
    timeout, result, error_msg, ret, exit_code, trace, outcome, pre, calls,
    restarts, text, verdicts>>

config ==
  <<MODEL_PRIORITIES, MAX_RETRIES_PER_MODEL, TOTAL_CYCLE_LIMIT>>

classifier_vars ==
  <<text, verdicts>>

None == [none |-> TRUE]

(* --------------------------- the controller ---------------------------- *)
\* GeminiModelFallback.__init__
__init__(master_mode) ==
  [master_mode |-> master_mode,
   current_model_index |-> 0,
   retry_count |-> 0,
   cycle_count |-> 0]

get_available_models ==
  MODEL_PRIORITIES

get_current_model(s) ==
  MODEL_PRIORITIES[s.current_model_index + 1]

\* what the external command can do in one invocation
InvocationOutcomes ==
  {[kind |-> "Success", stdout |-> TxtAnswer, stderr |-> TxtEmpty, returncode |-> 0]}
    \cup {[kind |-> "Failure", stdout |-> TxtEmpty, stderr |-> e, returncode |-> 1] :
             e \in ErrorTexts}
    \cup {[kind |-> "TimedOut", stdout |-> TxtEmpty, stderr |-> TxtEmpty, returncode |-> -1]}
    \cup {[kind |-> "Exception", stdout |-> TxtEmpty, stderr |-> e, returncode |-> -1] :
             e \in ExceptionTexts}

\* _execute_with_model: the dict built from what the command did
_execute_with_model(model, t, o) ==
  CASE o.kind \in {"Success", "Failure"} ->
         [success |-> (o.returncode = 0), model |-> model,
          output |-> o.stdout, error |-> o.stderr,
          returncode |-> o.returncode]
    [] o.kind = "TimedOut" ->
         [success |-> FALSE, model |-> model,
          error |-> TimeoutText(t), returncode |-> -1]
    [] o.kind = "Exception" ->
         [success |-> FALSE, model |-> model,
          error |-> o.stderr, returncode |-> -1]

FallbackStopsEarly(s) ==
  IF s.current_model_index < Len(MODEL_PRIORITIES) - 2
    THEN [ok |-> TRUE,
          self |-> [s EXCEPT !.current_model_index = @ + 1, !.retry_count = 0]]
    ELSE [ok |-> FALSE, self |-> s]

FallbackKeepsRetries(s) ==
  IF s.current_model_index < Len(MODEL_PRIORITIES) - 1
    THEN [ok |-> TRUE,
          self |-> [s EXCEPT !.current_model_index = @ + 1]]
    ELSE [ok |-> FALSE, self |-> s]

\* _fallback_to_next_model: the returned flag and the object afterwards
_fallback_to_next_model(s) ==
  IF s.current_model_index < Len(MODEL_PRIORITIES) - 1
    THEN [ok |-> TRUE,
          self |-> [s EXCEPT !.current_model_index = @ + 1, !.retry_count = 0]]
    ELSE [ok |-> FALSE, self |-> s]

ResetCycleKeepsIndex(s) ==
  LET s1 == [s EXCEPT !.cycle_count = @ + 1]
  IN  IF s1.cycle_count >= TOTAL_CYCLE_LIMIT
        THEN [ok |-> FALSE, self |-> s1]
        ELSE [ok |-> TRUE, self |-> [s1 EXCEPT !.retry_count = 0]]

ResetCycleChecksBeforeCounting(s) ==
  IF s.cycle_count >= TOTAL_CYCLE_LIMIT
    THEN [ok |-> FALSE, self |-> s]
    ELSE [ok |-> TRUE,
          self |-> [s EXCEPT !.cycle_count = @ + 1,
                             !.current_model_index = 0, !.retry_count = 0]]

ResetCycleResetsFirst(s) ==
  LET s1 == [s EXCEPT !.cycle_count = @ + 1, !.current_model_index = 0,
                      !.retry_count = 0]
  IN  IF s1.cycle_count >= TOTAL_CYCLE_LIMIT
        THEN [ok |-> FALSE, self |-> s1]
        ELSE [ok |-> TRUE, self |-> s1]

ResetCycleKeepsRetries(s) ==
  LET s1 == [s EXCEPT !.cycle_count = @ + 1]
  IN  IF s1.cycle_count >= TOTAL_CYCLE_LIMIT
        THEN [ok |-> FALSE, self |-> s1]
        ELSE [ok |-> TRUE, self |-> [s1 EXCEPT !.current_model_index = 0]]

ResetCycleOffByOne(s) ==
  LET s1 == [s EXCEPT !.cycle_count = @ + 1]
  IN  IF s1.cycle_count > TOTAL_CYCLE_LIMIT
        THEN [ok |-> FALSE, self |-> s1]
        ELSE [ok |-> TRUE,
              self |-> [s1 EXCEPT !.current_model_index = 0, !.retry_count = 0]]

\* _reset_cycle: the returned flag and the object afterwards
_reset_cycle(s) ==
  LET s1 == [s EXCEPT !.cycle_count = @ + 1]
  IN  IF s1.cycle_count >= TOTAL_CYCLE_LIMIT
        THEN [ok |-> FALSE, self |-> s1]
        ELSE [ok |-> TRUE,
              self |-> [s1 EXCEPT !.current_model_index = 0, !.retry_count = 0]]

NotifyFirstModel(s, last_error) ==
  [cycles |-> s.cycle_count,
   last_attempted_model |-> MODEL_PRIORITIES[1],
   total_models |-> Len(MODEL_PRIORITIES),
   retries_per_model |-> MAX_RETRIES_PER_MODEL,
   last_error |-> last_error]

\* _notify_master: the fields the message is built from
_notify_master(s, last_error) ==
  [cycles |-> s.cycle_count,
   last_attempted_model |-> get_current_model(s),
   total_models |-> Len(MODEL_PRIORITIES),
   retries_per_model |-> MAX_RETRIES_PER_MODEL,
   last_error |-> SubSeq(last_error, 1,
                    IF Len(last_error) < ERROR_PREVIEW_LEN
                      THEN Len(last_error) ELSE ERROR_PREVIEW_LEN)]

MaxRetriesReachedStrict(s) ==
  s.retry_count > MAX_RETRIES_PER_MODEL

\* line 194: the retries of the current model are used up
MaxRetriesReached(s) ==
  s.retry_count >= MAX_RETRIES_PER_MODEL

\* lines 213-218: the dict returned when every model is exhausted
ExhaustedReport(res) ==
  [success |-> FALSE,
   error |-> "All models exhausted. Master handoff required.",
   models_attempted |-> MODEL_PRIORITIES,
   last_error |-> res.error]

OnSuccessKeepsCycle(s, res) ==
  LET s1 == [s EXCEPT !.current_model_index = 0, !.retry_count = 0]
  IN  [self |-> s1, next |-> "return", notified |-> FALSE, msg |-> None,
       sleep |-> 0,
       ret |-> [success |-> res.success, model |-> res.model,
                output |-> res.output, error |-> res.error,
                returncode |-> res.returncode,
                fallback_used |-> (s1.cycle_count > 0 \/ s1.current_model_index > 0),
                cycles |-> s1.cycle_count]]

\* lines 171-184: the success branch of execute.  The flags of the returned
\* dict are computed from the object after it has been reset.
OnSuccess(s, res) ==
  LET s1 == [s EXCEPT !.cycle_count = 0, !.current_model_index = 0,
                      !.retry_count = 0]
  IN  [self |-> s1, next |-> "return", notified |-> FALSE, msg |-> None,
       sleep |-> 0,
       ret |-> [success |-> res.success, model |-> res.model,
                output |-> res.output, error |-> res.error,
                returncode |-> res.returncode,
                fallback_used |-> (s1.cycle_count > 0 \/ s1.current_model_index > 0),
                cycles |-> s1.cycle_count]]

\* lines 187-228: the quota branch of execute, up to the input() call
OnQuota(s, res) ==
  LET s1 == [s EXCEPT !.retry_count = @ + 1]
      fb == _fallback_to_next_model(s1)
      rc == _reset_cycle(fb.self)
  IN  IF MaxRetriesReached(s1)
        THEN IF ~fb.ok
               THEN IF ~rc.ok
                      THEN [self |-> rc.self,
                            next |-> IF rc.self.master_mode THEN "input" ELSE "return",
                            notified |-> TRUE,
                            msg |-> _notify_master(rc.self, res.error),
                            sleep |-> 0,
                            ret |-> ExhaustedReport(res)]
                      ELSE [self |-> rc.self, next |-> "continue",
                            notified |-> FALSE, msg |-> None, sleep |-> 0,
                            ret |-> None]
               ELSE [self |-> fb.self, next |-> "continue",
                     notified |-> FALSE, msg |-> None, sleep |-> 2,
                     ret |-> None]
        ELSE [self |-> s1, next |-> "continue",
              notified |-> FALSE, msg |-> None, sleep |-> 5, ret |-> None]

OnOtherErrorCountsRetry(s, res) ==
  [self |-> [s EXCEPT !.retry_count = @ + 1], next |-> "return",
   notified |-> TRUE,
   msg |-> _notify_master(s, res.error), sleep |-> 0,
   ret |-> [success |-> FALSE,
            error |-> <<"Non-quota error with ", get_current_model(s), res.error>>,
            models_attempted |-> get_available_models]]

\* lines 229-238: any other failure is handed off at once
OnOtherError(s, res) ==
  [self |-> s, next |-> "return", notified |-> TRUE,
   msg |-> _notify_master(s, res.error), sleep |-> 0,
   ret |-> [success |-> FALSE,
            error |-> <<"Non-quota error with ", get_current_model(s), res.error>>,
            models_attempted |-> get_available_models]]

\* lines 171-238: one pass of the loop body after the invocation returned
ExecuteStep(s, res) ==
  IF res.success THEN OnSuccess(s, res)
  ELSE IF _check_quota_error(res.error) THEN OnQuota(s, res)
  ELSE OnOtherError(s, res)

RetryCaseSensitive(user_input) ==
  user_input = <<"r", "e", "t", "r", "y">>

\* line 209: the operator asked to start over
RetryRequested(user_input) ==
  lower(user_input) = <<"r", "e", "t", "r", "y">>

\* line 210: self.__init__(master_mode=True)
Restart(s) ==
  __init__(TRUE)

ExitCodeAlwaysZero(r) ==
  0

\* main, lines 277-287: the process exit status for a returned dict
ExitCode(r) ==
  IF r.success THEN 0 ELSE 1

\* history only: how the loop body treats a returned dict (lines 171, 187)
Classify(res) ==
  IF res.success THEN "Success"
  ELSE IF _check_quota_error(res.error) THEN "QuotaExceeded"
  ELSE "Unrelated"

(* ------------------------------ actions -------------------------------- *)
Configs ==
  {<<n, r, c>> : n \in 1..MaxModels, r \in 1..MaxRetries, c \in 1..MaxCycles}

Init ==
  /\ \E cfg \in Configs :
       /\ MODEL_PRIORITIES = [i \in 1..cfg[1] |-> i]
       /\ MAX_RETRIES_PER_MODEL = cfg[2]
       /\ TOTAL_CYCLE_LIMIT = cfg[3]
  /\ \E m \in BOOLEAN : self = __init__(m)
  /\ pc = "idle"
  /\ timeout = 60
  /\ result = None
  /\ error_msg = None
  /\ ret = None
  /\ exit_code = -1
  /\ trace = << >>
  /\ outcome = "none"
  /\ pre = self
  /\ calls = 0
  /\ restarts = 0
  /\ text = << >>
  /\ verdicts = << >>

\* a caller (main, or a program using the class) calls execute
Call(t) ==
  /\ pc = "idle" \/ (pc = "returned" /\ calls < MaxCalls)
  /\ pc' = "attempting"
  /\ timeout' = t
  /\ result' = None
  /\ error_msg' = None
  /\ ret' = None
  /\ trace' = << >>
  /\ outcome' = "none"
  /\ pre' = self
  /\ calls' = calls + 1
  /\ restarts' = 0
  /\ UNCHANGED <<config, self, exit_code, classifier_vars>>

\* one pass of the while loop: invoke the current model, handle the outcome
Attempt(o) ==
  /\ pc = "attempting"
  /\ \E res \in {_execute_with_model(get_current_model(self), timeout, o)} :
     \E step \in {ExecuteStep(self, res)} :
       /\ self' = step.self
       /\ result' = res
       /\ error_msg' = IF step.notified THEN step.msg ELSE error_msg
       /\ ret' = IF step.next = "return" THEN step.ret ELSE ret
       /\ pc' = CASE step.next = "continue" -> "attempting"
                  [] step.next = "input" -> "input"
                  [] step.next = "return" -> "returned"
       /\ trace' = Append(trace,
                     [model |-> res.model, cycle |-> self.cycle_count,
                      class |-> Classify(res), sleep |-> step.sleep])
  /\ outcome' = o.kind
  /\ pre' = self
  /\ UNCHANGED <<config, timeout, exit_code, calls, restarts, classifier_vars>>

\* lines 208-218: the operator answers the hand-off prompt
OperatorInput(user_input) ==
  /\ pc = "input"
  /\ IF RetryRequested(user_input)
       THEN /\ restarts < MaxRestarts
            /\ self' = Restart(self)
            /\ pc' = "attempting"
            /\ ret' = ret
            /\ restarts' = restarts + 1
       ELSE /\ self' = self
            /\ pc' = "returned"
            /\ ret' = ExhaustedReport(result)
            /\ restarts' = restarts
  /\ UNCHANGED <<config, timeout, result, error_msg, exit_code, trace, outcome,
                 pre, calls, classifier_vars>>

\* line 208: input() raises EOFError when standard input is closed; nothing
\* catches it and the interpreter exits with status 1
OperatorEOF ==
  /\ pc = "input"
  /\ pc' = "crashed"
  /\ exit_code' = 1
  /\ UNCHANGED <<config, self, timeout, result, error_msg, ret, trace, outcome,
                 pre, calls, restarts, classifier_vars>>

\* main, lines 277-287: report the result and leave
Exit ==
  /\ pc = "returned"
  /\ pc' = "exited"
  /\ exit_code' = ExitCode(ret)
  /\ UNCHANGED <<config, self, timeout, result, error_msg, ret, trace, outcome,
                 pre, calls, restarts, classifier_vars>>

Next ==
  \/ \E t \in Timeouts : Call(t)
  \/ \E o \in InvocationOutcomes : Attempt(o)
  \/ \E line \in InputLines : OperatorInput(line)
  \/ OperatorEOF
  \/ Exit

Spec == Init /\ [][Next]_vars

(* -------- direct calls of the classifier on a range of texts ---------- *)
\* number of times _check_quota_error is called on the same text
ClassifyCalls == 2

UpperChar(c) ==
  IF \E i \in 1..26 : LowerCase[i] = c
    THEN UpperCase[CHOOSE i \in 1..26 : LowerCase[i] = c]
    ELSE c

upper(t) ==
  [i \in 1..Len(t) |-> UpperChar(t[i])]

\* first letter in upper case, the rest as it is
capitalized(t) ==
  [i \in 1..Len(t) |-> IF i = 1 THEN UpperChar(t[i]) ELSE t[i]]

\* error texts with and without the indicators, and near misses
ClassifyCores ==
  {<<"q", "u", "o", "t", "a">>,
   <<"q", "u", "o", "t", "a", " ", "e", "x", "c", "e", "e", "d", "e", "d">>,
   <<"l", "i", "m", "i", "t">>,
   <<"4", "2", "9">>,
   <<"r", "a", "t", "e", " ", "l", "i", "m", "i", "t">>,
   <<"u", "n", "l", "i", "m", "i", "t", "e", "d">>,
   <<"q", "u", "o", "t", "e">>,
   <<"l", "i", "m", "i", " ", "t">>,
   <<"4", "2", " ", "9">>,
   <<"4", "2">>,
   <<"r", "a", "t", "e">>,
   TxtRate, TxtPerm, TxtNotFound, TxtEmpty}

ClassifyPrefixes == {<< >>, <<"E", "r", "r", ":", " ">>}
ClassifySuffixes == {<< >>, <<"!">>}

ClassifyTexts ==
  {p \o c \o x : p \in ClassifyPrefixes,
                 c \in UNION {{k, upper(k), capitalized(k)} : k \in ClassifyCores},
                 x \in ClassifySuffixes}

\* a controller that is never run; only its classifier is called
InitClassify ==
  /\ MODEL_PRIORITIES = <<1>>
  /\ MAX_RETRIES_PER_MODEL = 1
  /\ TOTAL_CYCLE_LIMIT = 1
  /\ self = __init__(FALSE)
  /\ pc = "idle"
  /\ timeout = 60
  /\ result = None
  /\ error_msg = None
  /\ ret = None
  /\ exit_code = -1
  /\ trace = << >>
  /\ outcome = "none"
  /\ pre = self
  /\ calls = 0
  /\ restarts = 0
  /\ text \in ClassifyTexts
  /\ verdicts = << >>

\* one call of _check_quota_error(text), read the way execute reads it
\* (line 187: true means quota error, false means any other error)
CheckQuotaError ==
  /\ Len(verdicts) < ClassifyCalls
  /\ verdicts' = Append(verdicts,
                    IF _check_quota_error(text) THEN "QuotaExceeded"
                    ELSE "Unrelated")
  /\ UNCHANGED <<config, self, pc, timeout, result, error_msg, ret, exit_code,
                 trace, outcome, pre, calls, restarts, text>>

NextClassify ==
  CheckQuotaError

SpecClassify == InitClassify /\ [][NextClassify]_vars

TypeOK ==
  /\ pc \in {"idle", "attempting", "input", "returned", "exited", "crashed"}
  /\ self.current_model_index \in 0..(Len(MODEL_PRIORITIES) - 1)

(* ------------------------------ properties ----------------------------- *)
NumModels == Len(MODEL_PRIORITIES)

LastAttempt == trace[Len(trace)]

AllQuota ==
  \A i \in 1..Len(trace) : trace[i].class = "QuotaExceeded"

Finished == pc \in {"returned", "exited"}

Succeeded == Finished /\ ret.success

Escalated ==
  \/ pc \in {"input", "crashed"}
  \/ Finished /\ ~ret.success

Counters(s) ==
  <<s.current_model_index, s.retry_count, s.cycle_count>>

\* C1: in the first execute call of a fresh controller, without operator
\* restart, a run whose invocations all fail with a quota error is escalated
\* exactly when N*R*C invocations have been made, never before and never
\* later; for ranking [A,B], R = 1, C = 1 these are one invocation of A and
\* then one of B.
C1_QuotaOnlyRunEscalatesAfterNRC ==
  (calls = 1 /\ restarts = 0 /\ AllQuota) =>
    /\ Len(trace) <= NumModels * MAX_RETRIES_PER_MODEL * TOTAL_CYCLE_LIMIT
    /\ Escalated <=>
         (Len(trace) = NumModels * MAX_RETRIES_PER_MODEL * TOTAL_CYCLE_LIMIT)
    /\ ~Escalated => pc = "attempting"
    /\ (Escalated /\ NumModels = 2 /\ MAX_RETRIES_PER_MODEL = 1
          /\ TOTAL_CYCLE_LIMIT = 1) =>
         (Len(trace) = 2 /\ trace[1].model = MODEL_PRIORITIES[1]
            /\ trace[2].model = MODEL_PRIORITIES[2])

C1_Witness ==
  /\ calls = 1 /\ restarts = 0 /\ AllQuota /\ Escalated
  /\ NumModels = 2 /\ MAX_RETRIES_PER_MODEL = 2 /\ TOTAL_CYCLE_LIMIT = 2
  /\ Len(trace) = 8

\* C2: a failed invocation (nonzero exit) whose error text matches no quota
\* indicator ends the run at once as a failure: execute has returned a
\* failed dict, nothing is invoked afterwards, and the index, the retry
\* count and the cycle count are what they were before the invocation.
C2_UnrelatedEscalatesUnchanged ==
  (trace # << >> /\ outcome = "Failure" /\ LastAttempt.class = "Unrelated") =>
    /\ Finished
    /\ ~ret.success
    /\ Counters(self) = Counters(pre)

C2_Witness ==
  /\ trace # << >> /\ outcome = "Failure" /\ LastAttempt.class = "Unrelated"
  /\ pc = "returned"
  /\ pre.current_model_index > 0 /\ pre.retry_count > 0 /\ pre.cycle_count > 0

\* C3 (as claimed): whatever the timeout value, an invocation that timed out
\* is not treated as a quota error, ends the run at once and leaves the
\* counters as they were.
C3_TimedOutEscalatesAtOnce ==
  (trace # << >> /\ outcome = "TimedOut") =>
    /\ LastAttempt.class # "QuotaExceeded"
    /\ Finished
    /\ Counters(self) = Counters(pre)

\* C4: after any successful invocation execute has returned a successful
\* dict and the index, the retry count and the cycle count are all 0.
C4_SuccessResetsState ==
  (outcome = "Success") =>
    /\ Succeeded
    /\ Counters(self) = <<0, 0, 0>>

C4_Witness ==
  /\ outcome = "Success" /\ pc = "returned"
  /\ pre.current_model_index > 0 /\ pre.retry_count > 0 /\ pre.cycle_count > 0

\* C5 (as claimed): the dict returned on success has fallback_used true
\* exactly when the index or the cycle count was above 0 before the reset,
\* and cycles equal to the cycle count before the reset.
C5_ReportFromPreResetState ==
  (outcome = "Success" /\ Finished) =>
    /\ ret.fallback_used =
         (pre.current_model_index > 0 \/ pre.cycle_count > 0)
    /\ ret.cycles = pre.cycle_count

TwoAttemptsQuotaThenSuccess ==
  /\ calls = 1 /\ restarts = 0
  /\ NumModels = 2 /\ TOTAL_CYCLE_LIMIT = 1
  /\ Len(trace) = 2
  /\ trace[1].class = "QuotaExceeded" /\ trace[1].model = MODEL_PRIORITIES[1]
  /\ trace[2].class = "Success"

\* C6 (as claimed): with ranking [A,B], R = 1 and C = 1, after a quota
\* failure of A the successful second invocation is again of A, and the run
\* succeeds after 2 invocations with fallback_used false.
C6_Original ==
  (TwoAttemptsQuotaThenSuccess /\ MAX_RETRIES_PER_MODEL = 1) =>
    /\ trace[2].model = MODEL_PRIORITIES[1]
    /\ Succeeded
    /\ ret.fallback_used = FALSE

\* C6 (amended): with ranking [A,B] and C = 1, a quota failure of A followed
\* by a success ends in Succeeded after exactly 2 invocations; with R = 2
\* the second invocation is again of A and fallback_used is false, with
\* R = 1 the second invocation is of B.
C6_QuotaThenSuccess ==
  TwoAttemptsQuotaThenSuccess =>
    /\ Succeeded
    /\ (MAX_RETRIES_PER_MODEL = 2) =>
         (trace[2].model = MODEL_PRIORITIES[1] /\ ret.fallback_used = FALSE)
    /\ (MAX_RETRIES_PER_MODEL = 1) =>
         (trace[2].model = MODEL_PRIORITIES[2])

C6_Witness ==
  /\ TwoAttemptsQuotaThenSuccess /\ MAX_RETRIES_PER_MODEL = 2
  /\ trace[2].model = MODEL_PRIORITIES[1]
  /\ pc = "returned"

InBounds(s) ==
  /\ 0 <= s.retry_count /\ s.retry_count < MAX_RETRIES_PER_MODEL
  /\ 0 <= s.current_model_index /\ s.current_model_index < NumModels
  /\ 0 <= s.cycle_count /\ s.cycle_count < TOTAL_CYCLE_LIMIT

\* C7 (as claimed): in the first call, after quota failures only, the three
\* counters are within their bounds at every loop head and also in the state
\* handed over at escalation.
C7_Original ==
  (calls = 1 /\ AllQuota /\ (pc = "attempting" \/ Escalated)) => InBounds(self)

\* C7 (amended): in the first call, after quota failures only, the three
\* counters are within their bounds at every loop head, that is whenever a
\* backend is about to be invoked.
C7_BoundsAtLoopHead ==
  (calls = 1 /\ AllQuota /\ pc = "attempting") => InBounds(self)

C7_Witness ==
  /\ calls = 1 /\ AllQuota /\ pc = "attempting" /\ restarts = 0
  /\ NumModels >= 2 /\ MAX_RETRIES_PER_MODEL >= 2 /\ TOTAL_CYCLE_LIMIT >= 2
  /\ self.current_model_index = NumModels - 1
  /\ self.retry_count = MAX_RETRIES_PER_MODEL - 1
  /\ self.cycle_count = TOTAL_CYCLE_LIMIT - 1

\* C8: when the operator answers the hand-off prompt with the word retry (in
\* any letter case), execute goes on: the counters are 0, master mode is
\* still on and the backend invoked next is the first of the ranking; any
\* other line, the empty line included, makes execute return a failed dict.
C8_OperatorAnswer ==
  [][\A line \in InputLines :
       OperatorInput(line) =>
         IF lower(line) = InRetry
           THEN /\ pc' = "attempting"
                /\ self' = [master_mode |-> TRUE, current_model_index |-> 0,
                            retry_count |-> 0, cycle_count |-> 0]
                /\ get_current_model(self') = MODEL_PRIORITIES[1]
           ELSE /\ pc' = "returned"
                /\ ~ret'.success]_vars

C8_Witness ==
  /\ restarts = 1 /\ pc = "attempting"
  /\ self = [master_mode |-> TRUE, current_model_index |-> 0,
             retry_count |-> 0, cycle_count |-> 0]
  /\ Len(trace) = NumModels * MAX_RETRIES_PER_MODEL * TOTAL_CYCLE_LIMIT
  /\ NumModels >= 2

\* C9 (as claimed): in master mode every invocation that ends the attempts
\* without success, whatever the kind of failure, leads to the operator
\* prompt.
C9_EveryEscalationPrompts ==
  [][(pc = "attempting" /\ self.master_mode /\ pc' # "attempting"
        /\ outcome' # "Success") => pc' = "input"]_vars

\* C10: the process exit status is 0 exactly when execute returned a
\* successful dict and 1 when it returned a failed one, in both modes.
C10_ExitCode ==
  /\ (pc = "exited") =>
       /\ (exit_code = 0) <=> ret.success
       /\ (~ret.success) => exit_code = 1
  /\ (pc # "exited" /\ pc # "crashed") => exit_code = -1

C10_Witness ==
  /\ pc = "exited" /\ exit_code = 1 /\ ~ret.success
  /\ self.master_mode /\ outcome = "TimedOut"

C12_IndexChangeResetsRetries ==
  [][(self'.current_model_index # self.current_model_index) =>
       self'.retry_count = 0]_vars

C12_Witness ==
  /\ pc = "attempting" /\ calls = 1 /\ restarts = 0
  /\ MAX_RETRIES_PER_MODEL = 2 /\ NumModels >= 2
  /\ pre.current_model_index = NumModels - 1 /\ pre.retry_count = 1
  /\ self.current_model_index = 0 /\ self.retry_count = 0
  /\ self.cycle_count = 1

\* C13 (as claimed): every call of execute starts its loop with the index,
\* the retry count and the cycle count at 0, so that the first model it
\* invokes is the first of the ranking, also after a call that was handed off.
C13_EveryCallStartsFresh ==
  (pc = "attempting" /\ trace = << >>) =>
    /\ Counters(self) = <<0, 0, 0>>
    /\ get_current_model(self) = MODEL_PRIORITIES[1]

\* the substrings the classifier is documented to look for
ClaimedIndicators ==
  {<<"q", "u", "o", "t", "a">>,
   <<"q", "u", "o", "t", "a", " ", "e", "x", "c", "e", "e", "d", "e", "d">>,
   <<"l", "i", "m", "i", "t">>,
   <<"4", "2", "9">>,
   <<"r", "a", "t", "e", " ", "l", "i", "m", "i", "t">>}

ExpectedClass(t) ==
  IF \E ind \in ClaimedIndicators : Contains(lower(t), ind)
    THEN "QuotaExceeded" ELSE "Unrelated"

\* C14: every call of the classifier on a text answers QuotaExceeded exactly
\* when the lower-cased text contains "quota", "quota exceeded", "limit",
\* "429" or "rate limit", and Unrelated otherwise; the answer is the same for
\* the upper-case and capitalized spellings of a text, "Error 429: rate limit
\* exceeded" is QuotaExceeded and "permission denied" is Unrelated.
C14_ClassifierMatchesIndicators ==
  \A i \in 1..Len(verdicts) :
    /\ verdicts[i] = ExpectedClass(text)
    /\ verdicts[i] = ExpectedClass(upper(text))
    /\ (text = TxtRate) => verdicts[i] = "QuotaExceeded"
    /\ (text = TxtPerm) => verdicts[i] = "Unrelated"

C14_Witness ==
  /\ Len(verdicts) = 2
  /\ text = upper(TxtRate)
  /\ verdicts = <<"QuotaExceeded", "QuotaExceeded">>

\* the hand-off that follows a quota failure of the last model in the last
\* permitted cycle, in a call of a fresh controller
ExhaustedHandOff ==
  /\ calls = 1
  /\ trace # << >>
  /\ LastAttempt.class = "QuotaExceeded"
  /\ Escalated

SameModelRetry(i) ==
  trace[i + 1].model = trace[i].model /\ trace[i + 1].cycle = trace[i].cycle

NewCycle(i) ==
  trace[i + 1].cycle = trace[i].cycle + 1

\* C16 (as claimed): without operator restart, after every quota failure that
\* is followed by another invocation there is one backoff: 5 when the same
\* model is retried, 2 when the next model is taken and 2 when a new cycle
\* starts at the first model.
C16_BackoffBetweenAttempts ==
  (restarts = 0) =>
    \A i \in 1..(Len(trace) - 1) :
      (trace[i].class = "QuotaExceeded") =>
        trace[i].sleep = IF SameModelRetry(i) THEN 5 ELSE 2

\* C17: whenever execute has handed off (after the last quota failure as well
\* as after any other failure), the hand-off message names as last attempted
\* model the model of the most recent invocation.
C17_ReportNamesLastModel ==
  (Escalated /\ trace # << >>) =>
    error_msg.last_attempted_model = LastAttempt.model

C17_Witness ==
  /\ Escalated /\ pc = "input" /\ calls = 1
  /\ NumModels = 2
  /\ LastAttempt.class = "QuotaExceeded"
  /\ LastAttempt.model = MODEL_PRIORITIES[2]
  /\ error_msg.last_attempted_model = MODEL_PRIORITIES[2]

AttemptLimit ==
  NumModels * MAX_RETRIES_PER_MODEL * TOTAL_CYCLE_LIMIT

\* number of invocations of the current call before the first one whose
\* outcome was not a quota failure
QuotaPrefix ==
  IF AllQuota THEN Len(trace)
  ELSE (CHOOSE j \in 1..Len(trace) :
          /\ trace[j].class # "QuotaExceeded"
          /\ \A i \in 1..(j - 1) : trace[i].class = "QuotaExceeded") - 1

\* C18: in the first call of a fresh controller, without operator restart,
\* every invocation that follows quota failures only is the k-th one (k from
\* 0) of the model at rank (k div R) mod N, made with cycle count
\* k div (N*R): the ranking is walked in order, R invocations per model and
\* cycle, no model skipped.
C18_QuotaRunFollowsRanking ==
  (calls = 1 /\ restarts = 0) =>
    \A k \in 0..QuotaPrefix :
      (k < Len(trace)) =>
        /\ k < AttemptLimit
        /\ trace[k + 1].model =
             MODEL_PRIORITIES[((k \div MAX_RETRIES_PER_MODEL) % NumModels) + 1]
        /\ trace[k + 1].cycle = k \div (NumModels * MAX_RETRIES_PER_MODEL)

C18_Witness ==
  /\ calls = 1 /\ restarts = 0 /\ AllQuota
  /\ NumModels = 2 /\ MAX_RETRIES_PER_MODEL = 2 /\ TOTAL_CYCLE_LIMIT = 2
  /\ Len(trace) = 8
  /\ trace[7].model = MODEL_PRIORITIES[2] /\ trace[7].cycle = 1

\* C19: in the first call of a fresh controller, whatever the outcomes, at
\* most N*R*C invocations are made unless the operator restarted; a call that
\* has made N*R*C invocations without restart is over; once execute has
\* returned nothing more is invoked in that call; a restart happens in
\* master mode only.
C19_AttemptsBounded ==
  /\ (calls = 1 /\ restarts = 0) =>
       /\ Len(trace) <= AttemptLimit
       /\ (Len(trace) = AttemptLimit) => pc # "attempting"
  /\ (calls = 1 /\ Len(trace) > AttemptLimit) =>
       (restarts > 0 /\ self.master_mode)
  /\ (restarts > 0) => self.master_mode
  /\ (trace # << >> /\ LastAttempt.class # "QuotaExceeded") =>
       pc # "attempting"

C19_Witness ==
  /\ calls = 1 /\ restarts = 0 /\ ~self.master_mode
  /\ pc = "returned" /\ ~ret.success
  /\ NumModels = 2 /\ MAX_RETRIES_PER_MODEL = 2 /\ TOTAL_CYCLE_LIMIT = 2
  /\ Len(trace) = 8
=============================================================================
